---- MODULE Spec2Model ----
(***************************************************************************)
(* SpikeFI fault-injection campaign (spikefi/core.py, class Campaign).     *)
(* The round sequence and its editing operations (inject, then_inject,     *)
(* eject), and the evaluation run (golden pass, per-round faulty           *)
(* sub-range, hooks that perturb and restore).                             *)
(* Layer indices, round indices and golden_spikes indices are 0-based as   *)
(* in the source; TLA+ sequences are 1-based, so order[i + 1] is the       *)
(* layer of index i.                                                       *)
(***************************************************************************)
EXTENDS Integers, Sequences, FiniteSets, TLC

\* ------------------------------------------------------------------ bounds
\* Public calls (inject, then_inject, eject, run) made on one campaign.
MaxCalls == 3

\* ------------------------------------------------------- python helpers
\* Optional values: None is the empty tuple, a given value x is <<x>>.
None == <<>>
Some(x) == <<x>>
\* slice(None), the wildcard component of a fault site position (an integer no
\* axis size reaches, so that positions stay comparable)
ALL == 99
NoName == "None"

Range(s) == {s[i] : i \in 1..Len(s)}

RECURSIVE SetToSeq(_)
\* Iteration order of a Python set: arbitrary, but the same at every
\* iteration of the same set.
SetToSeq(S) ==
    IF S = {} THEN <<>>
    ELSE LET x == CHOOSE y \in S : TRUE IN <<x>> \o SetToSeq(S \ {x})

\* Python list indexing: a negative index counts from the end.
PyIndex(i, n) == IF i < 0 THEN i + n ELSE i

PyInRangeM(i, n) == i < n

\* seq[i] / seq.pop(i) are defined for -len <= i < len.
PyInRange(i, n) == -n <= i /\ i < n

RemoveAt(s, k) == [j \in 1..(Len(s) - 1) |-> IF j < k THEN s[j] ELSE s[j + 1]]

\* ------------------------------------------------- layer topology registry
order == <<"SF1", "SDrop", "SF2", "SF3">>

IsDropout(name) == name = "SDrop"

is_injectable(name) == name \in Range(order) /\ ~IsDropout(name)

get_injectables == SelectSeq(order, is_injectable)

index(name) == (CHOOSE i \in 1..Len(order) : order[i] = name) - 1

is_output(name) == name = order[Len(order)]

\* get_following taken for the layer itself
get_followingM(name) == name

get_following(name) == order[index(name) + 2]

shapes_syn == [name \in Range(get_injectables) |-> <<2, 2, 1, 1>>]

shapes_neu == [name \in Range(get_injectables) |-> <<2, 1, 1>>]

get_shapes(is_syn, name) == IF is_syn THEN shapes_syn[name] ELSE shapes_neu[name]

\* ------------------------------------------------------ fault entity model
is_synaptic(model) == model.target = "W"

is_parametric(model) == model.target = "P"

is_neuronal(model) == model.target \in {"Z", "P"}

\* Parameters of the neuron model (slayer.neuron)
NeuronParams == {"theta", "tauSr", "tauRef"}

DeadNeuron == [target |-> "Z", method |-> "set", param_name |-> NoName, arg |-> 0]

SaturatedNeuron == [target |-> "Z", method |-> "set", param_name |-> NoName, arg |-> 1]

ParametricNeuron(name, value) ==
    [target |-> "P", method |-> "param", param_name |-> name, arg |-> value]

SaturatedSynapse(value) ==
    [target |-> "W", method |-> "set", param_name |-> NoName, arg |-> value]

PerturbedSynapse(delta) ==
    [target |-> "W", method |-> "add", param_name |-> NoName, arg |-> delta]

FaultSite(layer, position) == [layer |-> layer, position |-> position]

Fault(model, sites) == [model |-> model, sites |-> sites]

\* Fault.__bool__: a fault without sites is void
FaultBool(f) == f.sites # {}

\* The faults the callers of this model hand to the campaign.
fDead1 == Fault(DeadNeuron, {FaultSite("SF1", <<ALL, 0, 0, 0>>)})
fSat2 == Fault(SaturatedNeuron, {FaultSite("SF2", <<ALL, -1, 0, 0>>)})
fDead3 == Fault(DeadNeuron, {FaultSite("SF3", <<ALL, 1, 0, 0>>)})
fPar2 == Fault(ParametricNeuron("theta", 1), {FaultSite("SF2", <<ALL, 0, 0, 0>>)})
fParBad == Fault(ParametricNeuron("gain", 1), {FaultSite("SF2", <<ALL, 0, 0, 0>>)})
fSynA == Fault(SaturatedSynapse(0), {FaultSite("SF2", <<1, 1, 0, 0>>)})
fSynB == Fault(PerturbedSynapse(1), {FaultSite("SF2", <<1, -1, 0, 0>>)})
fOut == Fault(DeadNeuron, {FaultSite("SF1", <<ALL, 2, 0, 0>>),
                           FaultSite("SDrop", <<ALL, 0, 0, 0>>)})

\* Fault collections passed to inject, then_inject and eject.
FaultLists ==
    { <<>>, <<fDead1>>, <<fSat2>>, <<fDead3>>, <<fSynA, fSynB>>,
      <<fParBad, fPar2, fOut>> }

\* FaultRound(): an insertion-ordered collection of faults
EmptyRound == <<>>

\* FaultRound.__bool__
RoundBool(round) == Len(round) > 0

RECURSIVE insert_many(_, _)
insert_many(round, faults) ==
    IF faults = <<>> THEN round
    ELSE insert_many(IF Head(faults) \in Range(round) THEN round
                     ELSE Append(round, Head(faults)),
                     Tail(faults))

extract_many(round, faults) ==
    LET Keep(f) == f \notin Range(faults) IN SelectSeq(round, Keep)

\* ---------------------------------------------------------------- validate
\* -dim <= c < dim (the site check of validate)
InRange(c, dim) == -dim <= c /\ c < dim

SiteValid(is_syn, s) ==
    /\ is_injectable(s.layer)
    /\ LET shape == get_shapes(is_syn, s.layer) IN
          /\ is_syn => InRange(s.position[1], shape[1])
          /\ \A i \in 2..4 :
                InRange(s.position[i], shape[IF is_syn THEN i ELSE i - 1])

ValidateFaultM(f) == f

ValidateFault(f) ==
    Fault(f.model, {s \in f.sites : SiteValid(is_synaptic(f.model), s)})

\* -shape[si] <= s.position[i] on a component that is slice(None): the
\* comparison of an int with a slice raises TypeError. Only the components
\* validate compares are concerned, on an injectable layer.
SiteRaises(is_syn, s) ==
    /\ is_injectable(s.layer)
    /\ \/ is_syn /\ s.position[1] = ALL
       \/ \E i \in 2..4 : s.position[i] = ALL

\* validate raises: a fault that is not skipped has a site whose check raises
ValidateRaises(faults) ==
    \E j \in 1..Len(faults) :
        /\ ~(is_parametric(faults[j].model) /\ faults[j].model.param_name \notin NeuronParams)
        /\ \E s \in faults[j].sites : SiteRaises(is_synaptic(faults[j].model), s)

RECURSIVE validate(_)
\* The list validate returns, when it returns
validate(faults) ==
    IF faults = <<>> THEN <<>>
    ELSE LET f == Head(faults)
             rest == validate(Tail(faults)) IN
         IF is_parametric(f.model) /\ f.model.param_name \notin NeuronParams
         THEN rest
         ELSE IF FaultBool(ValidateFault(f)) THEN <<ValidateFault(f)>> \o rest
              ELSE rest

\* ------------------------------------------------- network and its numerics
\* slayer.neuron: the parameters of the neuron model
neuron == [theta |-> 2, tauSr |-> 1, tauRef |-> 1]

\* Weights of the golden network, one matrix [out][in] per injectable layer
GoldenW ==
    [name \in Range(get_injectables) |->
        CASE name = "SF1" -> << <<2, 0>>, <<0, 2>> >>
          [] name = "SF2" -> << <<1, 1>>, <<0, 2>> >>
          [] name = "SF3" -> << <<2, 0>>, <<1, 1>> >>]

VARIABLE
    golden         \* the weights of Campaign.golden, one matrix per injectable layer

\* test_loader: the batches (input, label) in dataset order
Dataset == << [input |-> <<1, 1>>, label |-> 0], [input |-> <<0, 1>>, label |-> 1] >>

\* layer(spikes) of a dense layer: the weighted sums
Dense(W, spikes) ==
    [k \in 1..Len(W) |-> W[k][1] * spikes[1] + W[k][2] * spikes[2]]

\* slayer.spike(slayer.psp(x)) under threshold theta
Spike(x, theta) == [k \in 1..Len(x) |-> IF x[k] >= theta THEN 1 ELSE 0]

\* snn.predict.getClass: the class with most spikes (the first one on a tie)
getClass(output) == IF output[2] > output[1] THEN 1 ELSE 0

\* FaultSite.unroll on a neuronal tensor: the channel addressed
NeuIdx(site) == PyIndex(site.position[2], shapes_neu[site.layer][1]) + 1

\* FaultSite.unroll on a weight tensor: the (out, in) entry addressed
SynIdx(site) ==
    << PyIndex(site.position[1], shapes_syn[site.layer][1]) + 1,
       PyIndex(site.position[2], shapes_syn[site.layer][2]) + 1 >>

\* ------------------------------------------------------------ fault rounds
\* FaultRound.search(layer, targets): the faults of the round on that layer
SearchRound(round, layer_name, targets) ==
    LET Hit(f) == f.model.target \in targets /\ \E s \in f.sites : s.layer = layer_name
        hits == SelectSeq(round, Hit) IN
    [j \in 1..Len(hits) |->
        Fault(hits[j].model, {s \in hits[j].sites : s.layer = layer_name})]

search_neuronal(round, layer_name) == SearchRound(round, layer_name, {"Z", "P"})

search_parametric(round, layer_name) == SearchRound(round, layer_name, {"P"})

search_synaptic(round, layer_name) == SearchRound(round, layer_name, {"W"})

any_neuronal(round, layer_name) == search_neuronal(round, layer_name) # <<>>

any_parametric(round, layer_name) == search_parametric(round, layer_name) # <<>>

any_synaptic(round, layer_name) == search_synaptic(round, layer_name) # <<>>

\* Indices of the layers a round touches
TouchedIdx(round) == {index(s.layer) : s \in UNION {f.sites : f \in Range(round)}}

Min(S) == CHOOSE x \in S : \A y \in S : x <= y

Max(S) == CHOOSE x \in S : \A y \in S : x >= y

\* FaultRound.optimized(layers_info): the round with its earliest and latest
\* layer and whether the output stage is targeted
optimized(round) ==
    IF ~RoundBool(round)
    THEN [faults |-> round, early_idx |-> None, early_name |-> NoName,
          late_idx |-> None, is_out_faulty |-> FALSE]
    ELSE [faults |-> round,
          early_idx |-> Min(TouchedIdx(round)),
          early_name |-> order[Min(TouchedIdx(round)) + 1],
          late_idx |-> Max(TouchedIdx(round)),
          is_out_faulty |-> (Len(order) - 1) \in TouchedIdx(round)]

\* OptimizedFaultRound.__bool__
ORoundBool(oround) == RoundBool(oround.faults)

\* ----------------------------------------------------------- round groups
\* rgroups.setdefault(early_name, []); rgroups[early_name].append(r)
GroupAppend(groups, name, r) ==
    IF \E j \in 1..Len(groups) : groups[j].early_name = name
    THEN [j \in 1..Len(groups) |->
            IF groups[j].early_name = name
            THEN [groups[j] EXCEPT !.rs = Append(@, r)] ELSE groups[j]]
    ELSE Append(groups, [early_name |-> name, rs |-> <<r>>])

\* The rounds of no layer sorted last
GroupKeyM(group) == IF group.early_name = NoName THEN Len(order) ELSE index(group.early_name)

\* The sort key of a group: -1 for the rounds of no layer
GroupKey(group) == IF group.early_name = NoName THEN -1 ELSE index(group.early_name)

RECURSIVE SortedInsert(_, _)
SortedInsert(sorted, group) ==
    IF sorted = <<>> THEN <<group>>
    ELSE IF GroupKey(group) < GroupKey(Head(sorted))
         THEN <<group>> \o sorted
         ELSE <<Head(sorted)>> \o SortedInsert(Tail(sorted), group)

RECURSIVE SortGroups(_)
\* sorted(rgroups.items(), key=...): a stable sort by ascending key
SortGroups(groups) ==
    IF groups = <<>> THEN <<>>
    ELSE SortedInsert(SortGroups(SubSeq(groups, 1, Len(groups) - 1)),
                      groups[Len(groups)])

\* ------------------------------------------------------------ _perturb_net
ind_neu == 1
ind_syn == 2
ind_par == 3

NoHandles == << <<FALSE, FALSE>>, <<FALSE, FALSE>>, <<FALSE, FALSE>> >>

\* The handles of one layer after _perturb_net has looked at it for a round
PerturbLayer(h, round, layer_name) ==
    LET neu == any_neuronal(round, layer_name) /\ ~is_output(layer_name)
        par == any_neuronal(round, layer_name) /\ any_parametric(round, layer_name)
        syn == any_synaptic(round, layer_name) /\ ~(h[ind_syn][1] \/ h[ind_syn][2]) IN
    << <<h[ind_neu][1] \/ neu, h[ind_neu][2]>>,
       <<h[ind_syn][1] \/ syn, h[ind_syn][2] \/ syn>>,
       <<h[ind_par][1], h[ind_par][2] \/ par>> >>

_perturb_net(hs, round) ==
    [name \in Range(get_injectables) |->
        PerturbLayer(IF name \in DOMAIN hs THEN hs[name] ELSE NoHandles, round, name)]

\* A hook a module carries: the network and the module it was registered on,
\* whether it runs before the module's forward ("pre") or after it ("post"),
\* the wrapper that made it and the layer_name the wrapper was given
Hook(net, module, when, kind, layer) ==
    [net |-> net, module |-> module, when |-> when, kind |-> kind, layer |-> layer]

\* The neuronal pre-hook registered whatever self.handles holds
RegisterLayerM(h, round, layer_name) ==
    LET neu == any_neuronal(round, layer_name) /\ ~is_output(layer_name)
        par == /\ any_neuronal(round, layer_name) /\ any_parametric(round, layer_name)
               /\ ~h[ind_par][2]
        syn == any_synaptic(round, layer_name) /\ ~(h[ind_syn][1] \/ h[ind_syn][2]) IN
    (IF neu
     THEN <<Hook("faulty", get_following(layer_name), "pre", "neuron", layer_name)>>
     ELSE <<>>)
    \o (IF par THEN <<Hook("faulty", layer_name, "post", "parametric", layer_name)>>
        ELSE <<>>)
    \o (IF syn THEN <<Hook("faulty", layer_name, "pre", "synaptic", layer_name),
                      Hook("faulty", layer_name, "post", "synaptic", layer_name)>>
        ELSE <<>>)

\* The hooks registered on the modules of self.golden
RegisterOnGoldenM(h, round, layer_name) ==
    LET neu == /\ any_neuronal(round, layer_name) /\ ~is_output(layer_name)
               /\ ~h[ind_neu][1]
        par == /\ any_neuronal(round, layer_name) /\ any_parametric(round, layer_name)
               /\ ~h[ind_par][2]
        syn == any_synaptic(round, layer_name) /\ ~(h[ind_syn][1] \/ h[ind_syn][2]) IN
    (IF neu
     THEN <<Hook("golden", get_following(layer_name), "pre", "neuron", layer_name)>>
     ELSE <<>>)
    \o (IF par THEN <<Hook("golden", layer_name, "post", "parametric", layer_name)>>
        ELSE <<>>)
    \o (IF syn THEN <<Hook("golden", layer_name, "pre", "synaptic", layer_name),
                      Hook("golden", layer_name, "post", "synaptic", layer_name)>>
        ELSE <<>>)

\* The register_forward_pre_hook and register_forward_hook calls _perturb_net
\* makes for one layer and one round, h being the handles of the layer before:
\* on getattr(self.faulty, get_following(layer_name)) for the neuronal
\* pre-hook, on getattr(self.faulty, layer_name) for the others
RegisterLayer(h, round, layer_name) ==
    LET neu == /\ any_neuronal(round, layer_name) /\ ~is_output(layer_name)
               /\ ~h[ind_neu][1]
        par == /\ any_neuronal(round, layer_name) /\ any_parametric(round, layer_name)
               /\ ~h[ind_par][2]
        syn == any_synaptic(round, layer_name) /\ ~(h[ind_syn][1] \/ h[ind_syn][2]) IN
    (IF neu
     THEN <<Hook("faulty", get_following(layer_name), "pre", "neuron", layer_name)>>
     ELSE <<>>)
    \o (IF par THEN <<Hook("faulty", layer_name, "post", "parametric", layer_name)>>
        ELSE <<>>)
    \o (IF syn THEN <<Hook("faulty", layer_name, "pre", "synaptic", layer_name),
                      Hook("faulty", layer_name, "post", "synaptic", layer_name)>>
        ELSE <<>>)

RECURSIVE Registered(_, _, _)
\* The hooks one call of _perturb_net registers, over the layers `names`
Registered(hs, round, names) ==
    IF names = <<>> THEN <<>>
    ELSE RegisterLayer(IF Head(names) \in DOMAIN hs THEN hs[Head(names)] ELSE NoHandles,
                       round, Head(names))
         \o Registered(hs, round, Tail(names))

\* The state _pre_run derives from rounds rs[1..n]: orounds, groups, handles,
\* and the hooks it has registered
RECURSIVE PreRunLoop(_, _)
PreRunLoop(rs, n) ==
    IF n = 0 THEN [orounds |-> <<>>, rgroups |-> <<>>, handles |-> <<>>, hooks |-> <<>>]
    ELSE LET prev == PreRunLoop(rs, n - 1)
             oround == optimized(rs[n]) IN
         [orounds |-> Append(prev.orounds, oround),
          rgroups |-> GroupAppend(prev.rgroups, oround.early_name, n - 1),
          handles |-> _perturb_net(prev.handles, oround.faults),
          hooks |-> prev.hooks \o Registered(prev.handles, oround.faults, get_injectables)]

\* self.faulty = deepcopy(self.golden): the modules of the clone carry a copy
\* of every hook of the golden modules; the hooks of the former clone go
\* with it
Cloned(hks) ==
    LET g == SelectSeq(hks, LAMBDA h : h.net = "golden") IN
    g \o [j \in 1..Len(g) |-> [g[j] EXCEPT !.net = "faulty"]]

\* ------------------------------------------------------------------ hooks
\* The state a forward call works on: the tensors alive (heap, addressed by
\* reference so that in-place writes reach every holder of the tensor), the
\* weights of the faulty network, the values the fault models hold, and a log
\* of the stages executed and of the writes the hooks made.
RECURSIVE SitePairs(_)
\* for fault in faults: for site in fault.sites
SitePairs(faults) ==
    IF faults = <<>> THEN <<>>
    ELSE LET f == Head(faults)
             ss == SetToSeq(f.sites) IN
         [j \in 1..Len(ss) |-> [model |-> f.model, site |-> ss[j]]] \o SitePairs(Tail(faults))

\* The hooks applying the first round whatever the round index
ActiveRoundM(ors, r) == ors[1].faults

\* The round whose faults the hooks apply: self.orounds[self.r_idx]
ActiveRound(ors, r) == ors[r + 1].faults

\* fault.model.perturb(original, site)
perturb(st, model, site, value) ==
    CASE model.method = "set" -> model.arg
      [] model.method = "add" -> value + model.arg
      [] model.method = "param" -> st.args0[<<model, site>>]

Put(f, key, value) == (key :> value) @@ f

Drop(f, key) == [k \in DOMAIN f \ {key} |-> f[k]]

Logged(st, hook, p) ==
    st.writes \cup {[hook |-> hook, model |-> p.model, site |-> p.site]}

\* perturb of a parametric model finds the output its hook kept for the site
Kept(st, model, site) == model.method = "param" => <<model, site>> \in DOMAIN st.args0

RECURSIVE NeuronWrites(_, _, _)
\* prev_spikes_out[ind] = fault.model.perturb(prev_spikes_out[ind], site);
\* a lookup of a value that was never kept raises
NeuronWrites(st, pairs, ref) ==
    IF pairs = <<>> THEN st
    ELSE IF ~Kept(st, Head(pairs).model, Head(pairs).site)
    THEN [st EXCEPT !.raised = TRUE]
    ELSE LET p == Head(pairs)
             k == NeuIdx(p.site)
             v == perturb(st, p.model, p.site, st.heap[ref][k]) IN
         NeuronWrites([st EXCEPT !.heap[ref][k] = v, !.writes = Logged(st, "neuron_pre", p)],
                      Tail(pairs), ref)

neuron_pre_hook(st, round, layer_name, ref) ==
    NeuronWrites(st, SitePairs(search_neuronal(round, layer_name)), ref)

RECURSIVE ParametricWrites(_, _, _)
\* fault.model.args[0][site] = fspike_out[site.unroll()]
ParametricWrites(st, pairs, spikes_out) ==
    IF pairs = <<>> THEN st
    ELSE LET p == Head(pairs)
             theta == IF p.model.param_name = "theta" THEN p.model.arg ELSE neuron.theta
             fspike_out == Spike(spikes_out, theta) IN
         ParametricWrites(
             [st EXCEPT !.args0 = Put(@, <<p.model, p.site>>, fspike_out[NeuIdx(p.site)]),
                        !.writes = Logged(st, "parametric", p)],
             Tail(pairs), spikes_out)

parametric_hook(st, round, layer_name, spikes_out) ==
    ParametricWrites(st, SitePairs(search_parametric(round, layer_name)), spikes_out)

RECURSIVE SynapticPerturb(_, _, _)
\* layer.weight[ind] = fault.model.perturb_store(layer.weight[ind].item(), site):
\* the model keeps the value it was handed, per site, and returns it perturbed
SynapticPerturb(st, pairs, layer_name) ==
    IF pairs = <<>> THEN st
    ELSE LET p == Head(pairs)
             ind == SynIdx(p.site)
             w == st.faulty[layer_name][ind[1]][ind[2]] IN
         SynapticPerturb(
             [st EXCEPT !.original = Put(@, <<p.model, p.site>>, w),
                        !.faulty[layer_name][ind[1]][ind[2]] = perturb(st, p.model, p.site, w),
                        !.writes = Logged(st, "synaptic_pre", p)],
             Tail(pairs), layer_name)

synaptic_pre_hook(st, round, layer_name) ==
    SynapticPerturb(st, SitePairs(search_synaptic(round, layer_name)), layer_name)

RECURSIVE SynapticRestore(_, _, _)
\* layer.weight[site.unroll()] = fault.model.restore(site): the value kept
SynapticRestore(st, pairs, layer_name) ==
    IF pairs = <<>> THEN st
    ELSE LET p == Head(pairs)
             ind == SynIdx(p.site) IN
         SynapticRestore(
             [st EXCEPT !.faulty[layer_name][ind[1]][ind[2]] = st.original[<<p.model, p.site>>],
                        !.original = Drop(@, <<p.model, p.site>>),
                        !.writes = Logged(st, "synaptic", p)],
             Tail(pairs), layer_name)

synaptic_hook(st, round, layer_name) ==
    SynapticRestore(st, SitePairs(search_synaptic(round, layer_name)), layer_name)

\* The layers whose neuronal pre-hook is registered on module `name`
NeuronHookedOn(hs, name) ==
    SelectSeq(get_injectables,
              LAMBDA p : hs[p][ind_neu][1] /\ get_following(p) = name)

RECURSIVE NeuronPreHooks(_, _, _, _)
NeuronPreHooks(st, round, ps, ref) ==
    IF ps = <<>> THEN st
    ELSE NeuronPreHooks(neuron_pre_hook(st, round, Head(ps), ref), round, Tail(ps), ref)

\* The synaptic pre-hook of module `name`, if registered
SynapticPreHooks(st, hs, round, name) ==
    IF is_injectable(name) /\ hs[name][ind_syn][1]
    THEN synaptic_pre_hook(st, round, name) ELSE st

\* The forward pre-hooks of module `name`, called with its input tensor, in
\* registration order: the neuronal ones, then the synaptic one
PreHooks(st, hs, round, name, ref) ==
    SynapticPreHooks(NeuronPreHooks(st, round, NeuronHookedOn(hs, name), ref),
                     hs, round, name)

\* The parametric hook of module `name`, if registered
ParametricHooks(st, hs, round, name, spikes_out) ==
    IF hs[name][ind_par][2] THEN parametric_hook(st, round, name, spikes_out) ELSE st

\* The synaptic hook of module `name`, if registered
SynapticHooks(st, hs, round, name) ==
    IF hs[name][ind_syn][2] THEN synaptic_hook(st, round, name) ELSE st

\* The forward hooks of module `name`, called with its output, in
\* registration order: the parametric one, then the synaptic one
PostHooks(st, hs, round, name, spikes_out) ==
    SynapticHooks(ParametricHooks(st, hs, round, name, spikes_out), hs, round, name)

\* ------------------------------------------------------------ forward_opt
\* The value of `fail` under which no layer of the forward call raises
NoFail == Len(order)

\* spikes = slayer.spike(slayer.psp(spikes)): a new tensor
SpikeOut(st, spikes) ==
    [st |-> [st EXCEPT !.heap = Append(@, Spike(spikes, neuron.theta))],
     ref |-> Len(st.heap) + 1]

\* The module call once its pre-hooks have run: the forward (the one of layer
\* `fail` raises), the hooks, then spike(psp()) unless it is a dropout layer.
\* A dropout layer in eval mode hands its input tensor through.
LayerCall(st, hs, round, ref, i, fail) ==
    LET name == order[i + 1]
        spikes == Dense(st.faulty[name], st.heap[ref]) IN
    IF st.raised \/ fail = i THEN [st |-> [st EXCEPT !.raised = TRUE], ref |-> ref]
    ELSE IF IsDropout(name) THEN [st |-> st, ref |-> ref]
    ELSE SpikeOut(PostHooks(st, hs, round, name, spikes), spikes)

\* One iteration of the loop of forward_opt on the faulty network
FaultyLayer(st, hs, round, ref, i, fail) ==
    LayerCall([PreHooks(st, hs, round, order[i + 1], ref) EXCEPT !.exec = Append(@, i)],
              hs, round, ref, i, fail)

RECURSIVE FaultyForward(_, _, _, _, _, _, _)
\* self.faulty(spikes, start_idx, end_idx) on the result of a forward call
FaultyFrom(r, hs, round, start_idx, end_idx, fail) ==
    FaultyForward(r.st, hs, round, r.ref, start_idx, end_idx, fail)

\* forward_opt(faulty, spikes_in, start_idx, end_idx): the layers of index
\* start_idx..end_idx that exist, in order
FaultyForward(st, hs, round, ref, start_idx, end_idx, fail) ==
    IF st.raised \/ start_idx > end_idx \/ start_idx > Len(order) - 1
    THEN [st |-> st, ref |-> ref]
    ELSE FaultyFrom(FaultyLayer(st, hs, round, ref, start_idx, fail),
                    hs, round, start_idx + 1, end_idx, fail)

\* out_neuron_callable(None, (output,)) on the output of a forward call
OutNeuron(fw, round) ==
    IF fw.st.raised THEN fw.st
    ELSE neuron_pre_hook(fw.st, round, order[Len(order)], fw.ref)

\* The body of the loop of _evaluate_single up to the output
SingleEval(fw, round, is_out_faulty) ==
    [st |-> IF is_out_faulty THEN OutNeuron(fw, round) ELSE fw.st, ref |-> fw.ref]

\* forward_opt(golden, spikes_in, i, i): one stage of the golden network
GoldenLayer(hp, ref, i) ==
    LET name == order[i + 1] IN
    IF IsDropout(name) THEN [heap |-> hp, ref |-> ref]
    ELSE [heap |-> Append(hp, Spike(Dense(golden[name], hp[ref]), neuron.theta)),
          ref |-> Len(hp) + 1]

RECURSIVE GoldenPass(_, _)
\* golden_spikes after stages 0..n-1: the cache and the tensors it refers to
GoldenPass(input, n) ==
    IF n = 0 THEN [heap |-> <<input>>, golden_spikes |-> <<1>>, gexec |-> <<>>]
    ELSE LET prev == GoldenPass(input, n - 1)
             r == GoldenLayer(prev.heap, prev.golden_spikes[n], n - 1) IN
         [heap |-> r.heap, golden_spikes |-> Append(prev.golden_spikes, r.ref),
          gexec |-> Append(prev.gexec, n - 1)]

\* ------------------------------------------------------------------- state
VARIABLES
    rounds,        \* Campaign.rounds: the sequence of fault rounds
    r_idx,         \* Campaign.r_idx: the round the hooks apply
    orounds,       \* Campaign.orounds: the optimized rounds
    rgroups,       \* Campaign.rgroups: round indices per early layer, in order
    handles,       \* Campaign.handles: per layer, which hooks are installed
    hooks,         \* the hooks the modules of the two networks carry, in the
                   \* order of their registration
    performance,   \* Campaign.performance: one accumulator per round
    faulty,        \* the weights of Campaign.faulty (None before the first run)
    original,      \* FaultModel.original: the weight values kept for restore
    args0,         \* FaultModel.args[0]: the outputs kept by parametric hooks
    progress,      \* Campaign.progress: steps made, batch reached
    b,             \* index of the batch under evaluation
    heap,          \* the tensors of the batch, addressed by reference
    golden_spikes, \* the references of the cached golden activations
    todo,          \* round indices still to evaluate in this batch
    output,        \* the output recorded last
    last_eval,     \* log of the last round evaluation and of the golden pass
    pc,            \* where the campaign is: "idle" between public calls
    call,          \* the public call made last: its name, its round index, and
                   \* whether it reinstated the empty round
    err,           \* the exception the last call raised, "none" if it returned
    calls,         \* number of public calls made so far
    lock,          \* Campaign.progress_lock: "free" or its holder
    thread,        \* progress_thread of the last run: "none", "alive", "dead"
    updated,       \* whether the statistics of the last run have been updated
    returned       \* history: the rounds and the statistics of the last run
                   \* that returned, and how many runs in a row returned on
                   \* these rounds

\* The progress thread and its lock, followed only where run is modelled
\* statement by statement (RunStart and the actions after it)
progVars == <<lock, thread, updated>>

runVars == <<r_idx, orounds, rgroups, handles, hooks, golden, performance, faulty, original, args0,
             progress, b, heap, golden_spikes, todo, output, last_eval, lock, thread,
             updated, returned>>

vars == <<rounds, r_idx, orounds, rgroups, handles, hooks, golden, performance, faulty, original,
          args0, progress, b, heap, golden_spikes, todo, output, last_eval,
          pc, call, err, calls, lock, thread, updated, returned>>

Call(op, round_idx, reinstated) ==
    [op |-> op, round_idx |-> round_idx, reinstated |-> reinstated]

NoEval == [r |-> None, b |-> None, exec |-> <<>>, writes |-> {}, early_stop |-> "n/a",
           late_next |-> None, gexec |-> <<>>]

\* Campaign.__init__
Init ==
    /\ rounds = <<EmptyRound>>
    /\ r_idx = 0
    /\ orounds = <<>>
    /\ rgroups = <<>>
    /\ handles = <<>>
    /\ hooks = <<>>
    /\ golden = GoldenW
    /\ performance = <<>>
    /\ faulty = None
    /\ original = <<>>
    /\ args0 = <<>>
    /\ progress = None
    /\ b = 0
    /\ heap = <<>>
    /\ golden_spikes = <<>>
    /\ todo = <<>>
    /\ output = None
    /\ last_eval = NoEval
    /\ pc = "idle"
    /\ call = Call("__init__", None, FALSE)
    /\ err = "none"
    /\ calls = 0
    /\ lock = "free"
    /\ thread = "none"
    /\ updated = FALSE
    /\ returned = None

\* Round indices the callers pass: every index in range, and one past each end.
RoundIdxArgs == (-(Len(rounds) + 1))..Len(rounds)

\* ------------------------------------------------------------------ inject
\* rounds[round_idx].insert_many(validate(define_random(faults)))
InjectInto(rs, faults, round_idx) ==
    LET k == PyIndex(round_idx, Len(rs)) + 1 IN
    [rs EXCEPT ![k] = insert_many(rs[k], validate(faults))]

\* return inj_faults
InjectReturn(faults) == validate(faults)

Inject(faults, round_idx) ==
    /\ pc = "idle" /\ calls < MaxCalls
    /\ calls' = calls + 1
    /\ call' = Call("inject", Some(round_idx), FALSE)
    /\ IF ~PyInRange(round_idx, Len(rounds))
       THEN /\ err' = "AssertionError"
            /\ rounds' = rounds
       ELSE IF ValidateRaises(faults)
       THEN /\ err' = "TypeError"
            /\ rounds' = rounds
       ELSE /\ err' = "none"
            /\ rounds' = InjectInto(rounds, faults, round_idx)
    /\ UNCHANGED <<pc, runVars>>

\* rounds.append(FaultRound()); inject(faults, -1)
ThenInject(faults) ==
    /\ pc = "idle" /\ calls < MaxCalls
    /\ calls' = calls + 1
    /\ call' = Call("then_inject", None, FALSE)
    /\ IF ValidateRaises(faults)
       THEN /\ err' = "TypeError"
            /\ rounds' = Append(rounds, EmptyRound)
       ELSE /\ err' = "none"
            /\ rounds' = InjectInto(Append(rounds, EmptyRound), faults, -1)
    /\ UNCHANGED <<pc, runVars>>

\* inject(faults, round_idx) with faults not an Iterable (None, a bare Fault):
\* the assertion on round_idx comes first, then define_random raises
InjectNonIterable(round_idx) ==
    /\ pc = "idle" /\ calls < MaxCalls
    /\ calls' = calls + 1
    /\ call' = Call("inject", Some(round_idx), FALSE)
    /\ err' = IF ~PyInRange(round_idx, Len(rounds)) THEN "AssertionError" ELSE "TypeError"
    /\ UNCHANGED <<rounds, pc, runVars>>

\* then_inject(faults) with faults not an Iterable: the round is appended,
\* then inject(faults, -1) raises in define_random
ThenInjectNonIterable ==
    /\ pc = "idle" /\ calls < MaxCalls
    /\ calls' = calls + 1
    /\ call' = Call("then_inject", None, FALSE)
    /\ err' = "TypeError"
    /\ rounds' = Append(rounds, EmptyRound)
    /\ UNCHANGED <<pc, runVars>>

\* Campaign.validate called by the user; faults is None or a list
Validate(faults) ==
    /\ pc = "idle" /\ calls < MaxCalls
    /\ calls' = calls + 1
    /\ call' = Call("validate", None, FALSE)
    /\ err' = IF faults = None \/ ValidateRaises(faults[1]) THEN "TypeError" ELSE "none"
    /\ UNCHANGED <<rounds, pc, runVars>>

\* Campaign.define_random called by the user; faults is None or a list of
\* faults whose sites are all defined (no pending site to fill in)
DefineRandom(faults) ==
    /\ pc = "idle" /\ calls < MaxCalls
    /\ calls' = calls + 1
    /\ call' = Call("define_random", None, FALSE)
    /\ err' = IF faults = None THEN "TypeError" ELSE "none"
    /\ UNCHANGED <<rounds, pc, runVars>>

\* ------------------------------------------------------------------- eject
\* Python truthiness of the optional arguments of eject
Truthy(opt, falsy) == opt # None /\ opt[1] # falsy

RECURSIVE EjectFromAll(_, _, _)
\* for r in self.rounds: r.extract_many(faults); if not r: self.rounds.pop(r)
\* list.pop takes an index: handed the round itself it raises TypeError, with
\* the rounds visited so far already stripped of the faults.
EjectFromAll(rs, k, faults) ==
    IF k > Len(rs) THEN [rounds |-> rs, err |-> "none"]
    ELSE LET rs2 == [rs EXCEPT ![k] = extract_many(rs[k], faults)] IN
         IF ~RoundBool(rs2[k]) THEN [rounds |-> rs2, err |-> "TypeError"]
         ELSE EjectFromAll(rs2, k + 1, faults)

\* The body of eject up to its last statement: the rounds and the exception.
EjectBody(rs, faults, round_idx) ==
    IF Truthy(round_idx, 0)
    THEN IF ~PyInRange(round_idx[1], Len(rs))
         THEN [rounds |-> rs, err |-> "IndexError"]
         ELSE LET k == PyIndex(round_idx[1], Len(rs)) + 1
                  rs2 == IF Truthy(faults, <<>>)
                         THEN [rs EXCEPT ![k] = extract_many(rs[k], faults[1])]
                         ELSE rs IN
              IF ~Truthy(faults, <<>>) \/ ~RoundBool(rs2[k])
              THEN [rounds |-> RemoveAt(rs2, k), err |-> "none"]
              ELSE [rounds |-> rs2, err |-> "none"]
    ELSE IF Truthy(faults, <<>>)
         THEN EjectFromAll(rs, 1, faults[1])
         ELSE [rounds |-> <<>>, err |-> "none"]

\* eject without its last statement
ReinstateM(rs) == rs

\* if not self.rounds: self.rounds.append(FaultRound())
Reinstate(rs) == IF rs = <<>> THEN <<EmptyRound>> ELSE rs

Eject(faults, round_idx) ==
    /\ pc = "idle" /\ calls < MaxCalls
    /\ calls' = calls + 1
    /\ LET res == EjectBody(rounds, faults, round_idx) IN
          /\ call' = Call("eject", round_idx, res.err = "none" /\ res.rounds = <<>>)
          /\ err' = res.err
          /\ rounds' = IF res.err = "none" THEN Reinstate(res.rounds) ELSE res.rounds
    /\ UNCHANGED <<pc, runVars>>

\* eject(faults, round_idx) with faults not None and not an Iterable
EjectNonIterable(round_idx) ==
    /\ pc = "idle" /\ calls < MaxCalls
    /\ calls' = calls + 1
    /\ call' = Call("eject", round_idx, FALSE)
    /\ err' = "TypeError"
    /\ UNCHANGED <<rounds, pc, runVars>>

\* --------------------------------------------------------------------- run
RECURSIVE FlattenM(_)
\* The groups visited from the last to the first
FlattenM(groups) ==
    IF groups = <<>> THEN <<>> ELSE FlattenM(Tail(groups)) \o Head(groups).rs

RECURSIVE Flatten(_)
\* for round_group in rgroups.values(): for r_idx in round_group
Flatten(groups) ==
    IF groups = <<>> THEN <<>> ELSE Head(groups).rs \o Flatten(Tail(groups))

\* _advance_performance on an accumulator, for a batch of one sample
_advance_performance(stats, out, label) ==
    [correctSamples |-> stats.correctSamples + (IF getClass(out) = label THEN 1 ELSE 0),
     numSamples |-> stats.numSamples + 1]

\* _pre_run without self.performance.clear(): the accumulators of the rounds
\* that are still there are kept
RunM(rs) ==
    /\ err' = "none"
    /\ rounds' = Reinstate(rs)
    /\ LET pre == PreRunLoop(rounds', Len(rounds')) IN
          /\ orounds' = pre.orounds
          /\ rgroups' = SortGroups(pre.rgroups)
          /\ handles' = pre.handles
          /\ hooks' = Cloned(hooks) \o pre.hooks
    /\ r_idx' = 0
    /\ performance' = [j \in 1..Len(rounds') |->
                          IF j <= Len(performance) THEN performance[j]
                          ELSE [correctSamples |-> 0, numSamples |-> 0]]
    /\ faulty' = golden
    /\ progress' = [iter |-> 0, batch |-> 0]
    /\ b' = 0
    /\ heap' = <<>> /\ golden_spikes' = <<>> /\ todo' = <<>>
    /\ output' = None /\ last_eval' = NoEval
    /\ pc' = IF Len(rounds') <= 1 THEN "single" ELSE "golden"
    /\ UNCHANGED <<golden, original, args0, returned>>

\* run up to the evaluation, on the rounds rs: _pre_run, and the progress
\* counter
Run(rs) ==
    /\ err' = "none"
    /\ rounds' = Reinstate(rs)
    /\ LET pre == PreRunLoop(rounds', Len(rounds')) IN
          /\ orounds' = pre.orounds
          /\ rgroups' = SortGroups(pre.rgroups)
          /\ handles' = pre.handles
          /\ hooks' = Cloned(hooks) \o pre.hooks
    /\ r_idx' = 0
    /\ performance' = [j \in 1..Len(rounds') |-> [correctSamples |-> 0, numSamples |-> 0]]
    /\ faulty' = golden
    /\ progress' = [iter |-> 0, batch |-> 0]
    /\ b' = 0
    /\ heap' = <<>> /\ golden_spikes' = <<>> /\ todo' = <<>>
    /\ output' = None /\ last_eval' = NoEval
    /\ pc' = IF Len(rounds') <= 1 THEN "single" ELSE "golden"
    /\ UNCHANGED <<golden, original, args0, returned>>

RunBegin ==
    /\ pc = "idle" /\ calls < MaxCalls
    /\ calls' = calls + 1
    /\ call' = Call("run", None, rounds = <<>>)
    /\ Run(rounds)
    /\ UNCHANGED progVars

\* ------------------------------------------------------------ run_complete
\* The loops over l, m, n without the shift by is_syn
PositionsM(is_syn, lay_shape) ==
    LET K == IF is_syn THEN lay_shape[1] ELSE 1
        L == lay_shape[1]
        M == lay_shape[2]
        N == lay_shape[3] IN
    [j \in 1..(K * L * M * N) |->
        << IF is_syn THEN (j - 1) \div (L * M * N) ELSE ALL,
           ((j - 1) \div (M * N)) % L,
           ((j - 1) \div N) % M,
           (j - 1) % N >>]

\* The positions of a layer in the order of the loops over k, l, m, n
Positions(is_syn, lay_shape) ==
    LET s == IF is_syn THEN 1 ELSE 0
        K == IF is_syn THEN lay_shape[1] ELSE 1
        L == lay_shape[1 + s]
        M == lay_shape[2 + s]
        N == lay_shape[3 + s] IN
    [j \in 1..(K * L * M * N) |->
        << IF is_syn THEN (j - 1) \div (L * M * N) ELSE ALL,
           ((j - 1) \div (M * N)) % L,
           ((j - 1) \div N) % M,
           (j - 1) % N >>]

RECURSIVE ThenInjectEach(_, _, _, _)
\* self.then_inject([Fault(fault_model, FaultSite(lay_name, position))]) for
\* each position
ThenInjectEach(rs, fault_model, lay_name, positions) ==
    IF positions = <<>> THEN rs
    ELSE ThenInjectEach(
             InjectInto(Append(rs, EmptyRound),
                        <<Fault(fault_model, {FaultSite(lay_name, Head(positions))})>>, -1),
             fault_model, lay_name, Tail(positions))

RECURSIVE CompleteRounds(_, _, _)
\* for lay_name in lay_names_inj: one round per position
CompleteRounds(rs, fault_model, lay_names_inj) ==
    IF lay_names_inj = <<>> THEN rs
    ELSE CompleteRounds(
             ThenInjectEach(rs, fault_model, Head(lay_names_inj),
                            Positions(is_synaptic(fault_model),
                                      get_shapes(is_synaptic(fault_model),
                                                 Head(lay_names_inj)))),
             fault_model, Tail(lay_names_inj))

\* The injectable layers among layer_names, every injectable layer if none
\* is given
InjectableNames(layer_names) ==
    IF Truthy(layer_names, <<>>)
    THEN SelectSeq(layer_names[1], is_injectable)
    ELSE get_injectables

\* run_complete: the rounds are cleared, one round is made per site of the
\* layers, and the campaign is run
RunComplete(fault_model, layer_names) ==
    /\ pc = "idle" /\ calls < MaxCalls
    /\ calls' = calls + 1
    /\ call' = Call("run_complete", None, InjectableNames(layer_names) = <<>>)
    /\ Run(CompleteRounds(<<>>, fault_model, InjectableNames(layer_names)))
    /\ UNCHANGED progVars

\* The working state of a forward call, from the campaign's
Work == [heap |-> heap, faulty |-> faulty, original |-> original, args0 |-> args0,
         exec |-> <<>>, writes |-> {}, raised |-> FALSE]

\* An exception raised by a forward call leaves run: nothing is joined or
\* updated, the locals of the evaluation are gone.
Raised(st, r) ==
    /\ pc' = "idle"
    /\ err' = "RuntimeError"
    /\ faulty' = st.faulty /\ original' = st.original /\ args0' = st.args0
    /\ heap' = <<>> /\ golden_spikes' = <<>> /\ todo' = <<>> /\ output' = None
    /\ last_eval' = [last_eval EXCEPT !.r = Some(r), !.b = Some(b), !.exec = st.exec,
                                      !.writes = st.writes, !.early_stop = "n/a",
                                      !.late_next = None]
    /\ UNCHANGED <<performance, progress, b>>

\* After the last batch the evaluation is over
NextBatch(after) == IF b + 1 < Len(Dataset) THEN after ELSE "join"

\* _evaluate_single: the output is accumulated, the progress stepped
RecordSingle(ev) ==
    IF ev.st.raised THEN Raised(ev.st, r_idx)
    ELSE /\ output' = ev.st.heap[ev.ref]
         /\ performance' = [performance EXCEPT ![r_idx + 1] =
                _advance_performance(@, output', Dataset[b + 1].label)]
         /\ progress' = [iter |-> progress.iter + 1, batch |-> b]
         /\ faulty' = ev.st.faulty /\ original' = ev.st.original /\ args0' = ev.st.args0
         /\ last_eval' = [last_eval EXCEPT !.r = Some(r_idx), !.b = Some(b),
                                           !.exec = ev.st.exec, !.writes = ev.st.writes]
         /\ b' = b + 1
         /\ pc' = NextBatch("single")
         /\ UNCHANGED <<heap, golden_spikes, todo, err>>

\* _evaluate_single: one batch through the whole faulty network
EvalSingle(fail) ==
    /\ pc = "single"
    /\ RecordSingle(SingleEval(
           FaultyForward([Work EXCEPT !.heap = <<Dataset[b + 1].input>>], handles,
                         ActiveRound(orounds, r_idx), 1, 0, Len(order) - 1, fail),
           ActiveRound(orounds, r_idx), orounds[r_idx + 1].is_out_faulty))
    /\ UNCHANGED <<rounds, r_idx, orounds, rgroups, handles, hooks, golden,
                   call, calls, returned, progVars>>

\* _evaluate_optimized, start of a batch: the golden activations are cached
GoldenCache ==
    /\ pc = "golden"
    /\ LET g == GoldenPass(Dataset[b + 1].input, Len(order)) IN
          /\ heap' = g.heap
          /\ golden_spikes' = g.golden_spikes
          /\ last_eval' = [NoEval EXCEPT !.gexec = g.gexec]
    /\ todo' = Flatten(rgroups)
    /\ pc' = "rounds"
    /\ UNCHANGED <<rounds, r_idx, orounds, handles, hooks, golden,
                   rgroups, performance, faulty, original,
                   args0, progress, b, output, call, err, calls, returned, progVars>>

\* golden_spikes[-2] read where golden_spikes[-1] is meant
CachedM(gs, i) == IF i < 0 THEN gs[Len(gs) - 1] ELSE gs[i + 1]

\* golden_spikes[i] for a 0-based index i, golden_spikes[-1] for i = -1
Cached(gs, i) == gs[PyIndex(i, Len(gs)) + 1]

\* The early-stop comparison made against golden_spikes[late_idx + 1]
EarlyStopM(hp, gs, late_next_out, late_idx) ==
    hp[late_next_out] = hp[Cached(gs, late_idx + 1)]

\* early_stop = torch.equal(late_next_out, golden_spikes[late_idx + 2])
EarlyStop(hp, gs, late_next_out, late_idx) ==
    hp[late_next_out] = hp[Cached(gs, late_idx + 2)]

\* The result of a round evaluation:
\* [st, out: reference of the output, early_stop, late_next: late_next_out]
Evaluated(st, out, early_stop, late_next) ==
    [st |-> st, out |-> out, early_stop |-> early_stop, late_next |-> late_next]

\* The round evaluated to the last stage, after a late_next_out that differs
Continued(rest, late_next_out) ==
    Evaluated(rest.st, rest.ref, "no", Some(late_next_out))

\* output = golden_spikes[-1] if early_stop else self.faulty(late_next_out, late_idx + 2)
\* (golden_spikes[late_idx + 2] raises IndexError past the end of the cache)
Continue(next, hs, round, gs, late_idx, fail) ==
    IF next.st.raised
    THEN Evaluated(next.st, next.ref, "n/a", None)
    ELSE IF late_idx + 2 > Len(gs) - 1
    THEN Evaluated([next.st EXCEPT !.raised = TRUE], next.ref, "n/a", None)
    ELSE IF EarlyStop(next.st.heap, gs, next.ref, late_idx)
    THEN Evaluated(next.st, Cached(gs, -1), "yes", Some(next.st.heap[next.ref]))
    ELSE Continued(FaultyFrom(next, hs, round, late_idx + 2, Len(order) - 1, fail),
                   next.st.heap[next.ref])

\* The early-stop check made whether the output stage is faulty or not
AfterLateM(late, hs, round, gs, oround, fail) ==
    Continue(FaultyFrom(late, hs, round, oround.late_idx + 1, oround.late_idx + 1,
                        fail),
             hs, round, gs, oround.late_idx, fail)

\* After the faulty sub-range: the output perturbation, or the stage after
\* late_idx, the early-stop check and the continuation
AfterLate(late, hs, round, gs, oround, fail) ==
    IF oround.is_out_faulty
    THEN Evaluated(OutNeuron(late, round), late.ref, "n/a", None)
    ELSE Continue(FaultyFrom(late, hs, round, oround.late_idx + 1, oround.late_idx + 1,
                             fail),
                  hs, round, gs, oround.late_idx, fail)

\* The evaluation of round r on the batch
EvalOptimized(st0, hs, ors, gs, r, fail) ==
    IF ~ORoundBool(ors[r + 1])
    THEN Evaluated(st0, Cached(gs, -1), "n/a", None)
    ELSE AfterLate(FaultyForward(st0, hs, ActiveRound(ors, r),
                                 Cached(gs, ors[r + 1].early_idx),
                                 ors[r + 1].early_idx, ors[r + 1].late_idx, fail),
                   hs, ActiveRound(ors, r), gs, ors[r + 1], fail)

\* _evaluate_optimized: the output is accumulated, the progress stepped
RecordRound(ev) ==
    IF ev.st.raised THEN Raised(ev.st, r_idx')
    ELSE /\ output' = ev.st.heap[ev.out]
         /\ performance' = [performance EXCEPT ![r_idx' + 1] =
                _advance_performance(@, output', Dataset[b + 1].label)]
         /\ faulty' = ev.st.faulty /\ original' = ev.st.original /\ args0' = ev.st.args0
         /\ heap' = SubSeq(ev.st.heap, 1, Len(heap))
         /\ last_eval' = [last_eval EXCEPT !.r = Some(r_idx'), !.b = Some(b),
                              !.exec = ev.st.exec, !.writes = ev.st.writes,
                              !.early_stop = ev.early_stop, !.late_next = ev.late_next]
         /\ todo' = Tail(todo)
         /\ progress' = [iter |-> progress.iter + 1,
                         batch |-> IF todo' = <<>> THEN b ELSE progress.batch]
         /\ b' = IF todo' = <<>> THEN b + 1 ELSE b
         /\ pc' = IF todo' = <<>> THEN NextBatch("golden") ELSE "rounds"
         /\ UNCHANGED <<golden_spikes, err>>

\* _evaluate_optimized, one round of the batch
EvalRound(fail) ==
    /\ pc = "rounds" /\ todo # <<>>
    /\ r_idx' = Head(todo)
    /\ RecordRound(EvalOptimized(Work, handles, orounds, golden_spikes, Head(todo), fail))
    /\ UNCHANGED <<rounds, orounds, rgroups, handles, hooks, golden,
                   call, calls, returned, progVars>>

\* What a run that returns leaves to compare the next run with
Returned ==
    Some([rounds |-> rounds, performance |-> performance,
          times |-> IF returned # None /\ returned[1].rounds = rounds
                    THEN returned[1].times + 1 ELSE 1])

\* run after the evaluation: the progress task is joined, the locals are gone
RunEnd ==
    /\ pc = "join"
    /\ pc' = "idle"
    /\ heap' = <<>> /\ golden_spikes' = <<>> /\ todo' = <<>>
    /\ output' = None /\ last_eval' = NoEval
    /\ returned' = Returned
    /\ UNCHANGED <<rounds, r_idx, orounds, rgroups, handles, hooks, golden,
                   performance, faulty, original,
                   args0, progress, b, call, err, calls, progVars>>

\* run_complete with layer_names a str, or not None and not an Iterable
RunCompleteNonIterable(fault_model) ==
    /\ pc = "idle" /\ calls < MaxCalls
    /\ calls' = calls + 1
    /\ call' = Call("run_complete", None, FALSE)
    /\ err' = "TypeError"
    /\ UNCHANGED <<rounds, pc, runVars>>

\* ------------------------------------------- run, statement by statement
\* run with its progress thread: the worker's evaluation of a round, its
\* entry into `with self.progress_lock`, the statements under the lock, the
\* join and the update of the statistics are steps of their own, and the
\* progress thread runs beside them.

\* CampaignProgress(len(test_loader), len(self.rounds)): the steps of a run
iter_num == Len(Dataset) * Len(rounds)

\* run up to progress_thread.start()
RunStart ==
    /\ pc = "idle" /\ calls < MaxCalls
    /\ calls' = calls + 1
    /\ call' = Call("run", None, rounds = <<>>)
    /\ Run(rounds)
    /\ lock' = "free"
    /\ thread' = "alive"
    /\ updated' = FALSE

\* _evaluate_single up to the lock: the output is accumulated
BatchOutput(ev) ==
    IF ev.st.raised THEN Raised(ev.st, r_idx)
    ELSE /\ output' = ev.st.heap[ev.ref]
         /\ performance' = [performance EXCEPT ![r_idx + 1] =
                _advance_performance(@, output', Dataset[b + 1].label)]
         /\ faulty' = ev.st.faulty /\ original' = ev.st.original /\ args0' = ev.st.args0
         /\ last_eval' = [last_eval EXCEPT !.r = Some(r_idx), !.b = Some(b),
                                           !.exec = ev.st.exec, !.writes = ev.st.writes]
         /\ pc' = "acquire"
         /\ UNCHANGED <<heap, golden_spikes, todo, err, progress, b>>

EvaluateSingle(fail) ==
    /\ pc = "single"
    /\ BatchOutput(SingleEval(
           FaultyForward([Work EXCEPT !.heap = <<Dataset[b + 1].input>>], handles,
                         ActiveRound(orounds, r_idx), 1, 0, Len(order) - 1, fail),
           ActiveRound(orounds, r_idx), orounds[r_idx + 1].is_out_faulty))
    /\ UNCHANGED <<rounds, r_idx, orounds, rgroups, handles, hooks, golden,
                   call, calls, returned, progVars>>

\* _evaluate_optimized, one round up to the lock: the output is accumulated
RoundOutput(ev) ==
    IF ev.st.raised THEN Raised(ev.st, r_idx')
    ELSE /\ output' = ev.st.heap[ev.out]
         /\ performance' = [performance EXCEPT ![r_idx' + 1] =
                _advance_performance(@, output', Dataset[b + 1].label)]
         /\ faulty' = ev.st.faulty /\ original' = ev.st.original /\ args0' = ev.st.args0
         /\ heap' = SubSeq(ev.st.heap, 1, Len(heap))
         /\ last_eval' = [last_eval EXCEPT !.r = Some(r_idx'), !.b = Some(b),
                              !.exec = ev.st.exec, !.writes = ev.st.writes,
                              !.early_stop = ev.early_stop, !.late_next = ev.late_next]
         /\ pc' = "acquire"
         /\ UNCHANGED <<golden_spikes, err, todo, progress, b>>

EvaluateRound(fail) ==
    /\ pc = "rounds" /\ todo # <<>>
    /\ r_idx' = Head(todo)
    /\ RoundOutput(EvalOptimized(Work, handles, orounds, golden_spikes, Head(todo), fail))
    /\ UNCHANGED <<rounds, orounds, rgroups, handles, hooks, golden,
                   call, calls, returned, progVars>>

\* with self.progress_lock: the worker waits for the lock and takes it
Acquire ==
    /\ pc \in {"acquire", "acquire_batch"} /\ lock = "free"
    /\ lock' = "worker"
    /\ pc' = IF pc = "acquire" THEN "step" ELSE "set_batch"
    /\ UNCHANGED <<rounds, r_idx, orounds, rgroups, handles, hooks, golden,
                   performance, faulty, original,
                   args0, progress, b, heap, golden_spikes, todo, output, last_eval,
                   call, err, calls, returned, thread, updated>>

\* self.progress.step() (with set_batch(b) in _evaluate_single) and the exit
\* of the with block
Step ==
    /\ pc = "step"
    /\ lock' = "free"
    /\ IF Len(rounds) <= 1
       THEN /\ progress' = [iter |-> progress.iter + 1, batch |-> b]
            /\ b' = b + 1
            /\ pc' = NextBatch("single")
            /\ todo' = todo
       ELSE /\ progress' = [progress EXCEPT !.iter = @ + 1]
            /\ todo' = Tail(todo)
            /\ pc' = IF todo' = <<>> THEN "acquire_batch" ELSE "rounds"
            /\ b' = b
    /\ UNCHANGED <<rounds, r_idx, orounds, rgroups, handles, hooks, golden,
                   performance, faulty, original,
                   args0, heap, golden_spikes, output, last_eval, call, err, calls, returned,
                   thread, updated>>

\* self.progress.set_batch(b) at the end of a batch of _evaluate_optimized,
\* and the exit of the with block
SetBatch ==
    /\ pc = "set_batch"
    /\ lock' = "free"
    /\ progress' = [progress EXCEPT !.batch = b]
    /\ b' = b + 1
    /\ pc' = NextBatch("golden")
    /\ UNCHANGED <<rounds, r_idx, orounds, rgroups, handles, hooks, golden,
                   performance, faulty, original,
                   args0, heap, golden_spikes, todo, output, last_eval, call, err, calls, returned,
                   thread, updated>>

\* refresh_progress_job(progress, .1): the thread polls the counter, without
\* the lock, and ends once the counter shows every step made
refresh_progress_job ==
    /\ thread = "alive" /\ pc # "idle"
    /\ progress.iter = iter_num
    /\ thread' = "dead"
    /\ UNCHANGED <<rounds, r_idx, orounds, rgroups, handles, hooks, golden,
                   performance, faulty, original,
                   args0, progress, b, heap, golden_spikes, todo, output, last_eval,
                   pc, call, err, calls, returned, lock, updated>>

\* run going on without the join
JoinM ==
    /\ pc = "join"
    /\ pc' = "update"
    /\ UNCHANGED <<rounds, r_idx, orounds, rgroups, handles, hooks, golden,
                   performance, faulty, original,
                   args0, progress, b, heap, golden_spikes, todo, output, last_eval,
                   call, err, calls, returned, progVars>>

\* progress_thread.join(): the worker waits for the thread to end
Join ==
    /\ pc = "join" /\ thread = "dead"
    /\ pc' = "update"
    /\ UNCHANGED <<rounds, r_idx, orounds, rgroups, handles, hooks, golden,
                   performance, faulty, original,
                   args0, progress, b, heap, golden_spikes, todo, output, last_eval,
                   call, err, calls, returned, progVars>>

\* for stats in self.performance: stats.update(), and run returns
Update ==
    /\ pc = "update"
    /\ updated' = TRUE
    /\ pc' = "idle"
    /\ heap' = <<>> /\ golden_spikes' = <<>> /\ todo' = <<>>
    /\ output' = None /\ last_eval' = NoEval
    /\ returned' = Returned
    /\ UNCHANGED <<rounds, r_idx, orounds, rgroups, handles, hooks, golden,
                   performance, faulty, original,
                   args0, progress, b, call, err, calls, lock, thread>>

\* ----------------------------------------------------------- specification
FailPoints == 0..Len(order)

\* The arguments of run_complete: a neuronal model; the output layer, or a
\* layer that is not injectable
CompleteModels == {DeadNeuron}

LayerNameArgs == {Some(<<"SF3">>), Some(<<"SDrop">>)}

Next ==
    \/ \E faults \in FaultLists, round_idx \in RoundIdxArgs : Inject(faults, round_idx)
    \/ \E faults \in FaultLists : ThenInject(faults)
    \/ \E faults \in {None} \cup {Some(fl) : fl \in FaultLists},
          round_idx \in {None} \cup {Some(i) : i \in RoundIdxArgs} :
          Eject(faults, round_idx)
    \/ RunBegin
    \/ \E fault_model \in CompleteModels, layer_names \in LayerNameArgs :
          RunComplete(fault_model, layer_names)
    \/ \E fail \in FailPoints : EvalSingle(fail)
    \/ GoldenCache
    \/ \E fail \in FailPoints : EvalRound(fail)
    \/ RunEnd

Spec == Init /\ [][Next]_vars

\* ------------------------------------------ the calls and their arguments
\* A second specification: the calls that manage the rounds, with the
\* arguments a caller can get wrong, and no evaluation.

\* Coordinates tried on an axis: in range for the sizes 1 and 2, past each
\* end, and the wildcard
Coords == (-3..2) \cup {ALL}

\* An injectable layer, a layer that is not injectable, a name of no layer
LayerArgs == {"SF1", "SDrop", "SFX"}

\* Positions of neuronal sites: axis 0 is a wildcard or an index, one other
\* component is varied
NeuPositions ==
    {<<ALL, 0, 0, 0>>, <<5, 0, 0, 0>>}
        \cup {<<ALL, c, 0, 0>> : c \in Coords}
        \cup {<<ALL, 0, c, 0>> : c \in Coords}
        \cup {<<ALL, 0, 0, c>> : c \in Coords}

\* Positions of synaptic sites: one component is varied
SynPositions ==
    {<<c, 0, 0, 0>> : c \in Coords} \cup {<<0, c, 0, 0>> : c \in Coords}
        \cup {<<0, 0, c, 0>> : c \in Coords} \cup {<<0, 0, 0, c>> : c \in Coords}

SiteFaults ==
    {Fault(DeadNeuron, {FaultSite(l, p)}) : l \in LayerArgs, p \in NeuPositions}
        \cup {Fault(SaturatedSynapse(0), {FaultSite(l, p)}) :
                 l \in LayerArgs, p \in SynPositions}

\* A wildcard on an axis validate compares
fWild == Fault(DeadNeuron, {FaultSite("SF1", <<ALL, ALL, 0, 0>>)})

\* A site that is valid and one that is not
fMix == Fault(SaturatedNeuron, {FaultSite("SF1", <<ALL, 1, 0, 0>>),
                                FaultSite("SF1", <<ALL, 2, 0, 0>>)})

\* An unsupported parameter on a site with a wildcard
fParBadWild == Fault(ParametricNeuron("gain", 1), {FaultSite("SF2", <<ALL, ALL, 0, 0>>)})

ConfigFaultLists ==
    FaultLists \cup { <<fWild>>, <<fMix>>, <<fParBadWild, fDead1>> }

ValidateArgs ==
    {None} \cup {Some(<<f>>) : f \in SiteFaults} \cup {Some(fl) : fl \in ConfigFaultLists}

NextConfig ==
    \/ \E faults \in ConfigFaultLists, round_idx \in RoundIdxArgs : Inject(faults, round_idx)
    \/ \E round_idx \in RoundIdxArgs : InjectNonIterable(round_idx)
    \/ \E faults \in ConfigFaultLists : ThenInject(faults)
    \/ ThenInjectNonIterable
    \/ \E faults \in {None} \cup {Some(fl) : fl \in FaultLists},
          round_idx \in {None} \cup {Some(i) : i \in RoundIdxArgs} :
          Eject(faults, round_idx)
    \/ \E round_idx \in {None} \cup {Some(i) : i \in RoundIdxArgs} :
          EjectNonIterable(round_idx)
    \/ \E faults \in {None} \cup {Some(fl) : fl \in ConfigFaultLists} : Validate(faults)
    \/ \E faults \in {None} \cup {Some(fl) : fl \in ConfigFaultLists} : DefineRandom(faults)
    \/ \E fault_model \in CompleteModels : RunCompleteNonIterable(fault_model)

SpecConfig == Init /\ [][NextConfig]_vars

\* A third specification: validate on every site of the universe above, on
\* campaigns that hold a few rounds.
NextValidate ==
    \/ \E faults \in FaultLists \cup {<<fMix>>} : ThenInject(faults)
    \/ \E faults \in ValidateArgs : Validate(faults)

SpecValidate == Init /\ [][NextValidate]_vars

\* A fourth specification: run_complete over every kind of fault model and
\* over one, several, all or no injectable layers, on campaigns that hold
\* rounds of their own, with the evaluation that follows when no forward call
\* raises.
CompleteModelArgs ==
    {DeadNeuron, SaturatedSynapse(0), ParametricNeuron("theta", 1), ParametricNeuron("gain", 1)}

CompleteLayerArgs ==
    {None, Some(<<"SF1">>), Some(<<"SF3">>), Some(<<"SF1", "SF3">>),
     Some(<<"SDrop", "SF2">>), Some(<<"SDrop">>)}

NextComplete ==
    \/ \E faults \in {<<fDead1>>, <<fSynA, fSynB>>} : ThenInject(faults)
    \/ \E fault_model \in CompleteModelArgs, layer_names \in CompleteLayerArgs :
          RunComplete(fault_model, layer_names)
    \/ EvalSingle(NoFail)
    \/ GoldenCache
    \/ EvalRound(NoFail)
    \/ RunEnd

SpecComplete == Init /\ [][NextComplete]_vars

\* A fifth specification: run statement by statement beside its progress
\* thread, on campaigns of one or several rounds, when no forward call
\* raises. The worker thread and the progress thread are both scheduled as
\* long as they can take a step, and a forward pass ends.

\* The statements of the worker around its evaluations
Worker ==
    \/ Acquire
    \/ Step
    \/ SetBatch
    \/ Join
    \/ Update

NextProgress ==
    \/ \E faults \in {<<fDead1>>, <<fDead3>>, <<>>} : ThenInject(faults)
    \/ RunStart
    \/ EvaluateSingle(NoFail)
    \/ GoldenCache
    \/ EvaluateRound(NoFail)
    \/ Acquire
    \/ Step
    \/ SetBatch
    \/ refresh_progress_job
    \/ Join
    \/ Update

\* The worker is at an evaluation: EvaluateSingle, GoldenCache or
\* EvaluateRound is enabled exactly then
Evaluating == pc \in {"single", "golden", "rounds"}

\* Weak fairness of the worker's statements and of the progress thread; that
\* of the evaluations is written with their enabling condition
SpecProgress ==
    /\ Init /\ [][NextProgress]_vars
    /\ WF_vars(Worker) /\ WF_vars(refresh_progress_job)
    /\ []<>(~Evaluating)

\* ================================================================== claims
\* What the claims compare the campaign with.

IntSeq(a, c) == [j \in 1..(c - a + 1) |-> a + j - 1]

\* The final output of the golden network on an input
GoldenFinal(input) ==
    LET g == GoldenPass(input, Len(order)) IN g.heap[g.golden_spikes[Len(order) + 1]]

\* The statistics of the golden network over the first n batches
GoldenStats(n) ==
    [correctSamples |->
        Cardinality({i \in 1..n : getClass(GoldenFinal(Dataset[i].input)) = Dataset[i].label}),
     numSamples |-> n]

\* The output of a whole forward pass of a fresh clone of the golden network
\* that carries the hooks of this round alone
Fresh(input) ==
    [heap |-> <<input>>, faulty |-> GoldenW, original |-> <<>>, args0 |-> <<>>,
     exec |-> <<>>, writes |-> {}, raised |-> FALSE]

Tensor(ev) == ev.st.heap[ev.ref]

SingleOutput(round, input) ==
    Tensor(SingleEval(FaultyForward(Fresh(input), _perturb_net(<<>>, round), round,
                                    1, 0, Len(order) - 1, NoFail),
                      round, optimized(round).is_out_faulty))

\* A round evaluation of the multi-round path has completed and is the last
\* thing that happened to the output
EvaluatedOptimized ==
    pc \in {"rounds", "golden", "join"} /\ Len(orounds) > 1 /\ last_eval.r # None

\* The (model, site) pairs of the faults of a round
FaultPairs(round) ==
    UNION {{[model |-> f.model, site |-> s] : s \in f.sites} : f \in Range(round)}

EjectFaultArgs == {None} \cup {Some(fl) : fl \in FaultLists}

\* C1: a forward call of the faulty network that completes leaves every weight
\* at the value it had before the call (perturb and restore round-trip).
C1_PerturbRestoreRoundTrips ==
    [][(pc \in {"single", "rounds"} /\ pc' # "idle") => faulty' = faulty]_vars

\* C2: the output the multi-round path records for a non-empty round equals
\* the output of a whole forward pass of a fresh faulty network under that
\* round's faults.
C2_OptimizedEqualsFull ==
    EvaluatedOptimized =>
        LET r == last_eval.r[1] IN
        ORoundBool(orounds[r + 1]) =>
            output = SingleOutput(rounds[r + 1], Dataset[last_eval.b[1] + 1].input)

\* C3: for a round whose output stage is not faulty, the output of the stage
\* after late_idx equals the golden activation of that stage exactly when the
\* golden final output is recorded and no stage beyond it was executed;
\* otherwise every stage up to the last one was executed.
C3_EarlyStopCorrect ==
    EvaluatedOptimized =>
        LET oround == orounds[last_eval.r[1] + 1]
            g == GoldenPass(Dataset[last_eval.b[1] + 1].input, Len(order)) IN
        (ORoundBool(oround) /\ ~oround.is_out_faulty) =>
            /\ last_eval.late_next # None
            /\ IF last_eval.late_next[1] = g.heap[g.golden_spikes[oround.late_idx + 3]]
               THEN /\ last_eval.early_stop = "yes"
                    /\ output = g.heap[g.golden_spikes[Len(order) + 1]]
                    /\ last_eval.exec = IntSeq(oround.early_idx, oround.late_idx + 1)
               ELSE /\ last_eval.early_stop = "no"
                    /\ last_eval.exec = IntSeq(oround.early_idx, Len(order) - 1)

\* C3 witness: an early stop that skipped at least the last stage
C3_Witness ==
    /\ EvaluatedOptimized
    /\ last_eval.early_stop = "yes"
    /\ last_eval.exec # <<>>
    /\ last_eval.exec[Len(last_eval.exec)] < Len(order) - 1

\* C4: a round without faults records the golden final output for every batch
\* and accumulates the statistics of the golden network, alone or among rounds
\* with hooks installed.
C4_EmptyRoundIsGolden ==
    \A j \in 1..Len(orounds) :
        (~ORoundBool(orounds[j]) /\ Len(performance) = Len(orounds)) =>
            /\ performance[j] = GoldenStats(performance[j].numSamples)
            /\ (pc # "idle" /\ last_eval.r = Some(j - 1)) =>
                   output = GoldenFinal(Dataset[last_eval.b[1] + 1].input)

\* C4 witness: an empty round evaluated on every batch next to a faulty round
C4_Witness ==
    /\ pc = "join"
    /\ \E j, k \in 1..Len(orounds) :
          /\ ~ORoundBool(orounds[j]) /\ ORoundBool(orounds[k])
          /\ performance[j].numSamples = Len(Dataset)

\* C5: within a batch each golden stage is executed once and no round
\* evaluation changes a cached golden activation.
C5_GoldenCacheShared ==
    (pc \in {"rounds", "golden", "join"} /\ heap # <<>>) =>
        LET g == GoldenPass(Dataset[(IF pc = "rounds" THEN b ELSE b - 1) + 1].input,
                            Len(order)) IN
        /\ heap = g.heap
        /\ golden_spikes = g.golden_spikes
        /\ last_eval.gexec = IntSeq(0, Len(order) - 1)

\* C5 witness: two rounds with the same early layer evaluated on one batch,
\* the last one with a neuronal perturbation made in place
C5_Witness ==
    /\ EvaluatedOptimized
    /\ \E w \in last_eval.writes : w.hook = "neuron_pre"
    /\ \E j \in 1..Len(orounds) :
          /\ j - 1 # last_eval.r[1]
          /\ j - 1 \notin Range(todo)
          /\ orounds[j].early_name # NoName
          /\ orounds[j].early_name = orounds[last_eval.r[1] + 1].early_name

\* C6: the writes the hooks make while round r is evaluated are those of the
\* faults of round r: none of another round's, and all of round r's once the
\* evaluation has completed.
C6_RoundIsolation ==
    last_eval.r # None =>
        LET own == FaultPairs(orounds[last_eval.r[1] + 1].faults)
            made == {[model |-> w.model, site |-> w.site] : w \in last_eval.writes} IN
        /\ made \subseteq own
        /\ pc # "idle" => made = own

\* C6 witness: round r evaluated through a layer that carries a hook for a
\* fault of another round only
C6_Witness ==
    /\ pc = "rounds" /\ last_eval.r # None /\ last_eval.writes # {}
    /\ \E k \in 1..Len(orounds) :
          /\ k - 1 # last_eval.r[1]
          /\ \E p \in FaultPairs(orounds[k].faults) :
                /\ p \notin FaultPairs(orounds[last_eval.r[1] + 1].faults)
                /\ index(p.site.layer) \in Range(last_eval.exec)

\* C7: a forward call that raises leaves every weight at the value it had
\* before the call.
C7_RestoredOnError ==
    [][(pc \in {"single", "rounds"} /\ pc' = "idle") => faulty' = faulty]_vars

\* C8: the campaign holds at least one round, and an eject (or a run_complete
\* that makes no round) that leaves no round reinstates exactly one empty round.
C8_AtLeastOneRound ==
    /\ Len(rounds) >= 1
    /\ (call.op \in {"eject", "run_complete"} /\ call.reinstated) =>
           rounds = <<EmptyRound>>

\* C8 witness: an eject has removed the last round and returned
C8_Witness ==
    call.op = "eject" /\ call.reinstated /\ err = "none" /\ pc = "idle"

\* A site as the claims have it valid: the layer is injectable and every
\* concrete coordinate c on a checked axis of size N has -N <= c < N
ClaimSiteValid(is_syn, s) ==
    /\ is_injectable(s.layer)
    /\ \A i \in (IF is_syn THEN 1..4 ELSE 2..4) :
          \/ s.position[i] = ALL
          \/ LET N == get_shapes(is_syn, s.layer)[IF is_syn THEN i ELSE i - 1] IN
             -N <= s.position[i] /\ s.position[i] < N

\* A fault reduced to the sites the claims have valid
Survivor(f) == Fault(f.model, {s \in f.sites : ClaimSiteValid(is_synaptic(f.model), s)})

\* The faults that survive validation as the claims have it: the parameter
\* name, if any, is supported and at least one site is valid
Survivors(faults) ==
    SelectSeq([j \in 1..Len(faults) |-> Survivor(faults[j])],
              LAMBDA g : /\ g.sites # {}
                         /\ is_parametric(g.model) => g.model.param_name \in NeuronParams)

\* C11: inject with a round index in range inserts into that round exactly
\* the faults that survive validation, returns them, and leaves the number
\* of rounds and every other round unchanged.
C11_InjectFrame ==
    [][\A faults \in ConfigFaultLists, i \in RoundIdxArgs :
          (PyInRange(i, Len(rounds)) /\ Inject(faults, i)) =>
              LET k == PyIndex(i, Len(rounds)) + 1 IN
              /\ err' = "none"
              /\ Len(rounds') = Len(rounds)
              /\ \A j \in 1..Len(rounds) : j # k => rounds'[j] = rounds[j]
              /\ Range(rounds'[k]) = Range(rounds[k]) \cup Range(Survivors(faults))
              /\ InjectReturn(faults) = Survivors(faults)]_vars

\* C12: a then_inject call that returns adds exactly one round, the last one,
\* which holds exactly the faults that survived validation (none when none
\* survive); every round that existed keeps its position and contents.
C12_ThenInjectFrame ==
    [][\A faults \in ConfigFaultLists :
          (ThenInject(faults) /\ err' = "none") =>
              /\ Len(rounds') = Len(rounds) + 1
              /\ SubSeq(rounds', 1, Len(rounds)) = rounds
              /\ Range(rounds'[Len(rounds')]) = Range(Survivors(faults))]_vars

\* then_inject has returned and its round holds a fault that lost a site
C12_Witness ==
    /\ call.op = "then_inject" /\ err = "none"
    /\ Len(rounds) >= 2
    /\ rounds[Len(rounds)] = <<Survivor(fMix)>>

\* A round index that addresses no round of a list of n rounds
OutOfBounds(i, n) == i < -n \/ i >= n

\* C13: inject and eject with a round index out of bounds fail with an error
\* and leave the round sequence and the contents of every round as they were.
C13_OutOfBoundsRejected ==
    [][\A i \in RoundIdxArgs :
          OutOfBounds(i, Len(rounds)) =>
              /\ \A faults \in ConfigFaultLists :
                    Inject(faults, i) => (err' # "none" /\ rounds' = rounds)
              /\ InjectNonIterable(i) => (err' # "none" /\ rounds' = rounds)
              /\ \A faults \in {None} \cup {Some(fl) : fl \in FaultLists} :
                    Eject(faults, Some(i)) => (err' # "none" /\ rounds' = rounds)]_vars

\* inject or eject has failed on an index out of bounds, with faults in a round
C13_Witness ==
    /\ call.op \in {"inject", "eject"}
    /\ call.round_idx # None /\ OutOfBounds(call.round_idx[1], Len(rounds))
    /\ err \in {"AssertionError", "IndexError"}
    /\ \E k \in 1..Len(rounds) : rounds[k] # EmptyRound

\* A call with a fault collection that is not iterable (for run_complete:
\* layer names that are not iterable or a str)
NonIterableCall ==
    \/ \E i \in RoundIdxArgs : ~OutOfBounds(i, Len(rounds)) /\ InjectNonIterable(i)
    \/ ThenInjectNonIterable
    \/ \E i \in {None} \cup {Some(j) : j \in RoundIdxArgs} : EjectNonIterable(i)
    \/ Validate(None)
    \/ DefineRandom(None)
    \/ \E fault_model \in CompleteModels : RunCompleteNonIterable(fault_model)

\* C14: inject, then_inject, eject, define_random and validate with a fault
\* collection that is not iterable, and run_complete with layer names that are
\* not iterable or a str, raise a type error and leave the round sequence as
\* it was: no round added, removed or modified.
C14_TypeErrorLeavesRounds ==
    [][NonIterableCall => (err' = "TypeError" /\ rounds' = rounds)]_vars

\* C15: validate keeps a site exactly when its layer is injectable and every
\* concrete coordinate on a checked axis of size N lies in [-N, N) (all four
\* axes for a synaptic model, axes 1..3 for a neuronal one); wildcard
\* components are not range-checked and cause neither a rejection nor an
\* error; a fault is kept with its valid sites when it has any, and dropping
\* sites is never an error.
C15_ValidateKeepsValidSites ==
    [][\A faults \in ValidateArgs \ {None} :
          Validate(faults) =>
              /\ err' = "none"
              /\ validate(faults[1]) = Survivors(faults[1])]_vars

\* Every coordinate of a layer of the given shape: three axes under a
\* wildcard for a neuronal model, four axes for a synaptic one
Coordinates(is_syn, shape) ==
    IF is_syn
    THEN {<<k, l, m, n>> : k \in 0..(shape[1] - 1), l \in 0..(shape[2] - 1),
                           m \in 0..(shape[3] - 1), n \in 0..(shape[4] - 1)}
    ELSE {<<ALL, l, m, n>> : l \in 0..(shape[1] - 1), m \in 0..(shape[2] - 1),
                             n \in 0..(shape[3] - 1)}

RECURSIVE SumOfSizes(_, _)
\* The number of coordinates of the layers named, summed over the layers
SumOfSizes(is_syn, names) ==
    IF names = <<>> THEN 0
    ELSE Cardinality(Coordinates(is_syn, get_shapes(is_syn, Head(names))))
             + SumOfSizes(is_syn, Tail(names))

\* Layer shapes with more than one row and column, to enumerate
TestShapes == {<<2, 2, 2, 2>>, <<1, 2, 3, 2>>, <<3, 1, 2, 1>>}

\* The rounds rs are one round per coordinate of the layers: each holds one
\* fault of the model with one site, the sites differ from round to round and
\* cover every coordinate of every layer
EnumeratedAs(fault_model, names, rs) ==
    LET is_syn == is_synaptic(fault_model) IN
    /\ Len(rs) = SumOfSizes(is_syn, names)
    /\ \A j \in 1..Len(rs) :
          /\ Len(rs[j]) = 1
          /\ rs[j][1].model = fault_model
          /\ Cardinality(rs[j][1].sites) = 1
    /\ \A j, k \in 1..Len(rs) : j # k => rs[j][1].sites # rs[k][1].sites
    /\ UNION {rs[j][1].sites : j \in 1..Len(rs)}
          = UNION {{FaultSite(l, p) : p \in Coordinates(is_syn, get_shapes(is_syn, l))} :
                      l \in Range(names)}

\* run_complete enumerates as the claim has it, for the models in `models`:
\* the step of the call, the loops on shapes of any size, and the evaluation
\* once it is over
CompleteEnumerates(models) ==
    /\ \A fault_model \in models, layer_names \in CompleteLayerArgs :
          (InjectableNames(layer_names) # <<>> /\ RunComplete(fault_model, layer_names)) =>
              /\ EnumeratedAs(fault_model, InjectableNames(layer_names), rounds')
              /\ Len(performance') = Len(rounds')
    /\ \A is_syn \in BOOLEAN, shape \in TestShapes :
          /\ Range(Positions(is_syn, shape)) = Coordinates(is_syn, shape)
          /\ Len(Positions(is_syn, shape)) = Cardinality(Coordinates(is_syn, shape))
    /\ (call.op = "run_complete" /\ pc = "rounds" /\ pc' = "join") =>
          /\ Len(performance') = Len(rounds)
          /\ \A j \in 1..Len(rounds) : performance'[j].numSamples = Len(Dataset)

\* C16: run_complete with a fault model and one injectable layer evaluates
\* exactly one round per coordinate of the layer (C*H*W for a neuronal model,
\* the four-axis weight shape for a synaptic one), each round holding one
\* fault with one site, the sites pairwise distinct and covering the layer;
\* over several layers the count is the sum; the rounds present before the
\* call are not among them.
C16_CompleteEnumeration == [][CompleteEnumerates(CompleteModelArgs)]_vars

\* A fault model that validation accepts on its own account
AcceptedModels ==
    {fm \in CompleteModelArgs : is_parametric(fm) => fm.param_name \in NeuronParams}

\* C16 as amended: the same, for a fault model whose parameter name, if it
\* has one, is a parameter of the neuron model.
C16_CompleteEnumerationAccepted == [][CompleteEnumerates(AcceptedModels)]_vars

\* run_complete over every layer with a synaptic model has been evaluated
C16_Witness ==
    /\ call.op = "run_complete" /\ pc = "join" /\ err = "none"
    /\ Len(rounds) = 12
    /\ is_synaptic(rounds[1][1].model)
    /\ \A j \in 1..Len(rounds) : performance[j].numSamples = Len(Dataset)

\* The place of a round's earliest layer in the topological order, the rounds
\* that touch no layer before every layer
LayerRank(name) == IF name = NoName THEN 0 ELSE CHOOSE i \in 1..Len(order) : order[i] = name

\* The rounds in the order the claim gives: ascending earliest layer, no layer
\* first, and ascending index among the rounds of one layer
ExpectedOrder(ors) ==
    LET n == Len(ors)
        Before(q, r) == \/ LayerRank(ors[q + 1].early_name) < LayerRank(ors[r + 1].early_name)
                        \/ /\ ors[q + 1].early_name = ors[r + 1].early_name
                           /\ q < r
        Place(r) == Cardinality({q \in 0..(n - 1) : Before(q, r)}) IN
    [k \in 1..n |-> CHOOSE r \in 0..(n - 1) : Place(r) = k - 1]

\* A step of the evaluation that records a round
RoundRecorded == pc \in {"single", "rounds"} /\ progress'.iter = progress.iter + 1

\* C17: in a run the k-th evaluation is that of batch k div n, in dataset
\* order, and of the round at place k mod n of the order above (n rounds):
\* every round once per batch, all rounds of a batch before the next batch;
\* each evaluation advances the accumulator of its round, and only that one,
\* by the batch's sample count; once the evaluation is over every accumulator
\* has counted every sample of the dataset once.
C17_EvaluationOrder ==
    [][RoundRecorded =>
          LET n == Len(rounds)
              k == progress.iter
              r == ExpectedOrder(orounds)[(k % n) + 1] IN
          /\ b = k \div n
          /\ last_eval'.b = Some(k \div n) /\ last_eval'.r = Some(r)
          /\ performance'[r + 1].numSamples = performance[r + 1].numSamples + 1
          /\ \A j \in 1..n : j # r + 1 => performance'[j] = performance[j]
          /\ pc' = "join" =>
                \A j \in 1..n : performance'[j].numSamples = Len(Dataset)]_vars

\* A run has evaluated rounds whose order is not that of their indices
C17_Witness ==
    /\ pc = "join" /\ Len(rounds) >= 2
    /\ ExpectedOrder(orounds) # [k \in 1..Len(rounds) |-> k - 1]
    /\ \A j \in 1..Len(rounds) : performance[j].numSamples = Len(Dataset)

\* The places <<g, i>> of the round groups
GroupPlaces ==
    {p \in (1..Len(rgroups)) \X (1..Len(rounds)) : p[2] <= Len(rgroups[p[1]].rs)}

\* C20: after _pre_run, orounds and performance have one entry per round at
\* the round's index; every round index is in exactly one group, once; the
\* rounds of a group share the group's early_name and are in ascending order;
\* the groups are in ascending order of the layer index of early_name, the
\* group of the rounds that touch no layer first.
C20_OrderedPartition ==
    pc # "idle" =>
        LET n == Len(rounds) IN
        /\ Len(orounds) = n /\ Len(performance) = n
        /\ \A j \in 1..n : orounds[j].faults = rounds[j]
        /\ \A g \in 1..Len(rgroups) :
              /\ Len(rgroups[g].rs) <= n
              /\ \A i \in 1..Len(rgroups[g].rs) :
                    /\ rgroups[g].rs[i] \in 0..(n - 1)
                    /\ orounds[rgroups[g].rs[i] + 1].early_name = rgroups[g].early_name
                    /\ i > 1 => rgroups[g].rs[i - 1] < rgroups[g].rs[i]
              /\ g > 1 => LayerRank(rgroups[g - 1].early_name) < LayerRank(rgroups[g].early_name)
        /\ \A r \in 0..(n - 1) :
              Cardinality({p \in GroupPlaces : rgroups[p[1]].rs[p[2]] = r}) = 1

\* A run of rounds in two groups, the first of rounds that touch no layer,
\* one of them of several rounds
C20_Witness ==
    /\ pc # "idle"
    /\ Len(rgroups) >= 2
    /\ rgroups[1].early_name = NoName
    /\ \E g \in 1..Len(rgroups) : Len(rgroups[g].rs) >= 2

\* What a step of a run statement by statement keeps of the claim on the
\* progress thread
ProgressStep ==
    \* run starts one progress thread, on a counter at zero
    /\ (pc = "idle" /\ pc' # "idle") =>
          (thread' = "alive" /\ progress'.iter = 0 /\ ~updated')
    /\ (thread' = "alive" /\ thread # "alive") => pc = "idle"
    \* the counter is stepped under the lock, once for each batch and round
    /\ (pc # "idle" /\ progress' # progress) =>
          (pc \in {"step", "set_batch"} /\ lock = "worker")
    /\ pc = "step" =>
          /\ progress'.iter = progress.iter + 1
          /\ last_eval.b = Some(progress.iter \div Len(rounds))
          /\ last_eval.r = Some(ExpectedOrder(orounds)[(progress.iter % Len(rounds)) + 1])
    /\ (pc \notin {"idle", "step"}) => progress'.iter = progress.iter
    \* the statistics are updated after the join, the thread having ended
    /\ (updated' /\ ~updated) => (pc = "update" /\ thread = "dead")
    \* run returns with the thread ended and every step counted
    /\ (pc # "idle" /\ pc' = "idle") =>
          (thread = "dead" /\ updated' /\ progress.iter = iter_num)

\* C18: run starts one progress thread; the worker steps the progress counter
\* once for each batch and round, and only while it holds the progress lock;
\* the thread has ended before run returns; the statistics are updated only
\* after the join; and when no forward call raises, a run that has started
\* eventually returns with the counter at batches times rounds.
C18_ProgressDrained ==
    /\ [][ProgressStep]_vars
    /\ (pc # "idle") ~> (/\ pc = "idle" /\ err = "none"
                         /\ thread = "dead" /\ updated
                         /\ progress.iter = iter_num)

\* A run of several rounds has returned
C18_Witness ==
    /\ pc = "idle" /\ call.op = "run" /\ err = "none"
    /\ Len(rounds) >= 2
    /\ thread = "dead" /\ updated
    /\ progress.iter = iter_num

\* C19: every run derives its state anew (the faulty network a clone of the
\* golden one, the optimized rounds from the rounds, the accumulators at
\* zero), and a run that returns on the rounds of the last run that
\* returned has the same statistics for every round.
C19_RunRederives ==
    [][/\ (pc = "idle" /\ pc' # "idle") =>
             /\ faulty' = GoldenW
             /\ orounds' = [j \in 1..Len(rounds') |-> optimized(rounds'[j])]
             /\ performance' = [j \in 1..Len(rounds') |->
                                   [correctSamples |-> 0, numSamples |-> 0]]
             /\ progress'.iter = 0
       /\ (pc = "join" /\ pc' = "idle" /\ returned # None /\ returned[1].rounds = rounds) =>
             performance = returned[1].performance]_vars

\* Two runs in a row have returned on rounds that hold synaptic faults
C19_Witness ==
    /\ pc = "idle" /\ call.op = "run" /\ err = "none"
    /\ returned # None /\ returned[1].times >= 2
    /\ \E j \in 1..Len(rounds) : any_synaptic(rounds[j], "SF2")
    /\ returned[1].performance = performance

\* eject(faults, round_idx) as the claim has it: the round at round_idx alone
IntendedEject(rs, faults, round_idx) ==
    LET k == PyIndex(round_idx, Len(rs)) + 1
        rs2 == IF Truthy(faults, <<>>)
               THEN [rs EXCEPT ![k] = extract_many(rs[k], faults[1])] ELSE rs IN
    IF ~Truthy(faults, <<>>) \/ ~RoundBool(rs2[k])
    THEN Reinstate(RemoveAt(rs2, k)) ELSE rs2

\* C9: eject with an in-range round index, 0 included, changes the round at
\* that index only.
C9_EjectOnlyThatRound ==
    [][\A faults \in EjectFaultArgs, i \in RoundIdxArgs :
          (PyInRange(i, Len(rounds)) /\ Eject(faults, Some(i))) =>
              (err' = "none" /\ rounds' = IntendedEject(rounds, faults, i))]_vars

\* C10: eject(faults) over all rounds returns, leaves the given faults in no
\* round and removes the rounds it emptied.
C10_EjectFromAllRounds ==
    [][\A fl \in FaultLists \ {<<>>} :
          Eject(Some(fl), None) =>
              LET kept == {j \in 1..Len(rounds) :
                             ~RoundBool(rounds[j]) \/ RoundBool(extract_many(rounds[j], fl))} IN
              /\ err' = "none"
              /\ \A j \in 1..Len(rounds') : Range(rounds'[j]) \cap Range(fl) = {}
              /\ Len(rounds') = IF kept = {} THEN 1 ELSE Cardinality(kept)]_vars

\* The hooks of a kind the modules of the faulty network carry for a layer
HooksFor(layer, when, kind) ==
    {j \in 1..Len(hooks) :
        /\ hooks[j].net = "faulty" /\ hooks[j].layer = layer
        /\ hooks[j].when = when /\ hooks[j].kind = kind}

\* How many times the hooks of a kind ran for a layer in the evaluation logged
\* last: each hook runs once each time its module is executed
Firings(layer, when, kind) ==
    Cardinality({jk \in HooksFor(layer, when, kind) \X (1..Len(last_eval.exec)) :
                    order[last_eval.exec[jk[2]] + 1] = hooks[jk[1]].module})

\* A fault site of the round evaluated last is perturbed once: by the one
\* hook of its layer and target, or on the finished output for a neuronal
\* fault of the output layer
AppliedOnce(p) ==
    LET l == p.site.layer IN
    /\ is_synaptic(p.model) =>
           /\ Firings(l, "pre", "synaptic") = 1
           /\ Firings(l, "post", "synaptic") = 1
           /\ [hook |-> "synaptic_pre", model |-> p.model, site |-> p.site]
                  \in last_eval.writes
           /\ [hook |-> "synaptic", model |-> p.model, site |-> p.site]
                  \in last_eval.writes
    /\ is_parametric(p.model) =>
           /\ Firings(l, "post", "parametric") = 1
           /\ [hook |-> "parametric", model |-> p.model, site |-> p.site]
                  \in last_eval.writes
    /\ is_neuronal(p.model) =>
           /\ Firings(l, "pre", "neuron") = IF is_output(l) THEN 0 ELSE 1
           /\ is_output(l) => orounds[last_eval.r[1] + 1].is_out_faulty
           /\ [hook |-> "neuron_pre", model |-> p.model, site |-> p.site]
                  \in last_eval.writes

C22_GoldenReadOnly ==
    [][/\ golden' = golden
       /\ \A j \in 1..Len(hooks') : hooks'[j].net = "faulty"
       /\ pc = "golden" =>
              /\ faulty' = faulty /\ original' = original /\ args0' = args0
              /\ last_eval'.writes = {}]_vars

\* C22 witness: a synaptic hook has written a weight, the clone differs from
\* the golden network, whose weights are those it was built with
C22_Witness ==
    /\ \E w \in last_eval.writes : w.hook = "synaptic_pre"
    /\ hooks # <<>>
    /\ faulty # golden
    /\ golden = GoldenW

\* The only faults of the round are synaptic or parametric faults of the
\* last stage
OnlyLastStage(oround) ==
    /\ ORoundBool(oround)
    /\ \A p \in FaultPairs(oround.faults) :
          is_output(p.site.layer) /\ (is_synaptic(p.model) \/ is_parametric(p.model))

\* C23: with L stages, every round that holds faults has
\* 0 <= early_idx <= late_idx <= L - 1; the golden cache of a batch has L + 1
\* entries; a round evaluation that made the early-stop check was of a round
\* whose output stage is not faulty, with late_idx <= L - 2, so that the
\* index late_idx + 2 is within the cache; a round whose only faults are
\* synaptic or parametric faults of the last stage is evaluated without the
\* check; and no evaluation raises.
C23_EarlyStopInBounds ==
    LET L == Len(order) IN
    /\ \A j \in 1..Len(orounds) :
           ORoundBool(orounds[j]) =>
               /\ 0 <= orounds[j].early_idx
               /\ orounds[j].early_idx <= orounds[j].late_idx
               /\ orounds[j].late_idx <= L - 1
    /\ golden_spikes # <<>> => Len(golden_spikes) = L + 1
    /\ last_eval.r # None =>
           LET oround == orounds[last_eval.r[1] + 1] IN
           /\ last_eval.early_stop \in {"yes", "no"} =>
                  /\ ORoundBool(oround) /\ ~oround.is_out_faulty
                  /\ oround.late_idx <= L - 2
                  /\ oround.late_idx + 2 <= Len(golden_spikes) - 1
           /\ (ORoundBool(oround) /\ ~oround.is_out_faulty /\ Len(orounds) > 1) =>
                  last_eval.early_stop \in {"yes", "no"}
           /\ OnlyLastStage(oround) => last_eval.early_stop = "n/a"
    /\ err # "RuntimeError"

\* C23 witness: among several rounds, one whose only fault is a synaptic or a
\* parametric fault of the last stage has been evaluated and its output
\* recorded
C23_Witness ==
    /\ pc = "rounds" /\ last_eval.r # None
    /\ OnlyLastStage(orounds[last_eval.r[1] + 1])
    /\ orounds[last_eval.r[1] + 1].late_idx = Len(order) - 1
    /\ output # None

====
